---- MODULE Spec2Model ----
(***************************************************************************)
(* InterMarketAnalyzer (src/analysis/intermarket.py).                      *)
(*                                                                         *)
(* Symbols are sequences of one-character strings.  Correlations are       *)
(* integers in hundredths (80 is 0.80); a frame records separately which   *)
(* of its symbols have an undefined (NaN) correlation row, as pandas gives *)
(* for a return series of zero variance.  A mean is kept as a fraction     *)
(* [num, den] of hundredths; den = 0 is NaN (the mean of nothing).         *)
(* Timestamps and the standard deviation of the regime summary are left    *)
(* out of the results: no operation reads them.                            *)
(***************************************************************************)
EXTENDS Integers, Sequences, FiniteSets, TLC

\* pc, op, symbols, target: the call in progress and its arguments;
\* idx, price_data: the loop of calculate_correlations;
\* calls: what the price provider was asked so far, and how it answered;
\* correlations, result: the frame computed and the value returned.
VARIABLES pc, op, symbols, target, idx, price_data, calls, correlations,
          result

vars == <<pc, op, symbols, target, idx, price_data, calls, correlations,
          result>>

(***************************** bounds **************************************)
\* Longest symbol list handed to a public operation.
MaxSyms == 3
\* Most columns of a matrix handed to identify_leaders.
MaxCols == 4

(***************************** symbols *************************************)
GC_F == <<"G", "C", "=", "F">>
SI_F == <<"S", "I", "=", "F">>
PL_F == <<"P", "L", "=", "F">>
NoSymbol == <<>>

\* The symbols of the requests of Spec: a commodity, an index, an equity.
Universe == {GC_F, <<"^", "N">>, <<"A">>}
\* The symbols detect_spillover is asked about; a list may hold them or not.
Targets == {GC_F, <<"A">>}

SymbolLists == UNION {[1..n -> Universe] : n \in 0..MaxSyms}

Range(s) == {s[i] : i \in 1..Len(s)}

endswith(s, suffix) ==
    /\ Len(s) >= Len(suffix)
    /\ SubSeq(s, Len(s) - Len(suffix) + 1, Len(s)) = suffix

startswith(s, prefix) ==
    /\ Len(s) >= Len(prefix)
    /\ SubSeq(s, 1, Len(prefix)) = prefix

\* A plausible slip: the '^' rule tried before the suffix rules.
get_asset_class_index_first(symbol) ==
    IF startswith(symbol, <<"^">>) THEN "index"
    ELSE IF endswith(symbol, <<"=", "X">>) THEN "forex"
    ELSE IF symbol \in {GC_F, SI_F, PL_F} THEN "commodity"
    ELSE IF endswith(symbol, <<"-", "U", "S", "D">>)
            \/ endswith(symbol, <<"-", "U", "S", "D", "T">>) THEN "crypto"
    ELSE "equity"

_get_asset_class(symbol) ==
    IF endswith(symbol, <<"=", "X">>) THEN "forex"
    ELSE IF symbol \in {GC_F, SI_F, PL_F} THEN "commodity"
    ELSE IF endswith(symbol, <<"-", "U", "S", "D">>)
            \/ endswith(symbol, <<"-", "U", "S", "D", "T">>) THEN "crypto"
    ELSE IF startswith(symbol, <<"^">>) THEN "index"
    ELSE "equity"

(***************************** numbers *************************************)
min_correlation_threshold == 30
HighCorrelation == 70
ModerateCorrelation == 40
One == 100

Abs(x) == IF x < 0 THEN -x ELSE x

NaN == [num |-> 0, den |-> 0]
IsNaN(m) == m.den = 0
Exactly(x) == [num |-> x, den |-> 1]

\* a < b and a > t on floats: false as soon as one side is NaN.
MeanLT(a, b) == a.den > 0 /\ b.den > 0 /\ a.num * b.den < b.num * a.den
MeanGT(a, t) == a.den > 0 /\ a.num > t * a.den

RECURSIVE SumSeq(_)
SumSeq(s) == IF s = <<>> THEN 0 ELSE Head(s) + SumSeq(Tail(s))

RECURSIVE MaxSeq(_)
MaxSeq(s) == IF Len(s) = 1 THEN s[1]
             ELSE LET m == MaxSeq(Tail(s)) IN IF s[1] > m THEN s[1] ELSE m

RECURSIVE MinSeq(_)
MinSeq(s) == IF Len(s) = 1 THEN s[1]
             ELSE LET m == MinSeq(Tail(s)) IN IF s[1] < m THEN s[1] ELSE m

\* pandas Series.mean / max / min of the defined values (skipna): NaN when none is.
SeriesMean(s) == IF s = <<>> THEN NaN ELSE [num |-> SumSeq(s), den |-> Len(s)]
SeriesMax(s) == IF s = <<>> THEN NaN ELSE Exactly(MaxSeq(s))
SeriesMin(s) == IF s = <<>> THEN NaN ELSE Exactly(MinSeq(s))

(***************************** frames **************************************)
\* pd.DataFrame(): no column.
EmptyFrame == [columns |-> <<>>, nan |-> {}, r |-> <<>>]

Empty(M) == Len(M.columns) = 0

\* What a non-empty price series can be: an ordinary one, or one whose returns
\* have no variance (a constant close, too few rows), which corr() answers
\* with NaN.
SeriesKinds == {"ok", "unvarying"}

\* The correlations a pair of ordinary return series can show.
CorrGrid == {-80, 25, 30, 40, 70, 80}

Undefined(M, a, b) == a \in M.nan \/ b \in M.nan

\* abs(M[a, b]) > threshold on floats: false for NaN.
Strong(M, a, b) ==
    ~Undefined(M, a, b) /\ Abs(M.r[<<a, b>>]) > min_correlation_threshold

\* The frame pandas' corr() returns for the stored series: one column per key
\* in insertion order, symmetric, 1.0 on the diagonal, and NaN wherever a
\* series of zero variance is involved (its own diagonal entry included).
FramesOver(pd, grid) ==
    LET cols == [i \in 1..Len(pd) |-> pd[i].symbol]
        unvarying == {pd[i].symbol : i \in {j \in 1..Len(pd) : pd[j].kind = "unvarying"}}
        ok == Range(cols) \ unvarying
        pairs == {{a, b} : a \in ok, b \in ok} \ {{a} : a \in ok}
    IN  {[columns |-> cols,
          nan |-> unvarying,
          r |-> [p \in Range(cols) \X Range(cols) |->
                   IF p[1] \in unvarying \/ p[2] \in unvarying THEN 0
                   ELSE IF p[1] = p[2] THEN One
                   ELSE g[{p[1], p[2]}]]] : g \in [pairs -> grid]}

CorrFrames(pd) == FramesOver(pd, CorrGrid)

\* price_data[symbol] = series: a new key goes last, a known key keeps its place.
DictSet(pd, symbol, kind) ==
    IF \E i \in 1..Len(pd) : pd[i].symbol = symbol
    THEN [i \in 1..Len(pd) |->
            IF pd[i].symbol = symbol THEN [symbol |-> symbol, kind |-> kind]
            ELSE pd[i]]
    ELSE Append(pd, [symbol |-> symbol, kind |-> kind])

\* if not data.empty: price_data[symbol] = data['close']
Store(pd, symbol, kind) ==
    IF kind = "empty" THEN pd ELSE DictSet(pd, symbol, kind)

\* A plausible slip: break instead of continue in the except branch.
BreakOnException(i, n) == n + 1

\* except Exception: print; continue
AfterException(i, n) == i + 1

\* if not price_data: return pd.DataFrame(), else the correlation frame.
calculate_correlations(pd) ==
    IF pd = <<>> THEN {EmptyFrame} ELSE CorrFrames(pd)

(***************************** identify_leaders ****************************)
\* correlations[symbol].drop(symbol): the other columns' symbols, in order.
Others(M, symbol) == SelectSeq(M.columns, LAMBDA x : x # symbol)

\* The entries of that column which are not NaN.
Defined(M, symbol) ==
    LET o == SelectSeq(Others(M, symbol), LAMBDA x : ~Undefined(M, x, symbol))
    IN  [i \in 1..Len(o) |-> M.r[<<o[i], symbol>>]]

AbsAll(s) == [i \in 1..Len(s) |-> Abs(s[i])]

\* (series.abs() > threshold).sum() over the other symbols.
StrongCount(M, symbol) ==
    Cardinality({x \in Range(Others(M, symbol)) : Strong(M, x, symbol)})

LeaderEntry(M, symbol) ==
    [symbol |-> symbol,
     leadership_score |-> SeriesMean(AbsAll(Defined(M, symbol))),
     strong_correlations |-> StrongCount(M, symbol),
     avg_correlation |-> SeriesMean(Defined(M, symbol)),
     max_correlation |-> SeriesMax(Defined(M, symbol)),
     min_correlation |-> SeriesMin(Defined(M, symbol))]

\* x['leadership_score'] < y['leadership_score'], the only comparison sort makes.
KeyLT(x, y) == MeanLT(x.leadership_score, y.leadership_score)

PyReverse(s) == [i \in 1..Len(s) |-> s[Len(s) + 1 - i]]

\* CPython's list sort on fewer than 64 items: count_run finds the longest
\* leading run (non-descending, or strictly descending and then reversed),
\* binarysort inserts the rest one by one.
InRun(s, k, descending) ==
    IF descending THEN KeyLT(s[k], s[k - 1]) ELSE ~KeyLT(s[k], s[k - 1])

RunDescending(s) == Len(s) >= 2 /\ KeyLT(s[2], s[1])

count_run(s) ==
    IF Len(s) < 2 THEN Len(s)
    ELSE CHOOSE n \in 2..Len(s) :
            /\ \A k \in 2..n : InRun(s, k, RunDescending(s))
            /\ n = Len(s) \/ ~InRun(s, n + 1, RunDescending(s))

ReversePrefix(s, n) ==
    [i \in 1..Len(s) |-> IF i <= n THEN s[n + 1 - i] ELSE s[i]]

RECURSIVE BinarySearch(_, _, _, _)
BinarySearch(s, pivot, l, r) ==
    IF l >= r THEN l
    ELSE LET p == l + ((r - l) \div 2)
         IN  IF KeyLT(pivot, s[p]) THEN BinarySearch(s, pivot, l, p)
             ELSE BinarySearch(s, pivot, p + 1, r)

MoveTo(s, from, to) ==
    [k \in 1..Len(s) |->
        IF k < to \/ k > from THEN s[k]
        ELSE IF k = to THEN s[from]
        ELSE s[k - 1]]

RECURSIVE binarysort(_, _)
binarysort(s, start) ==
    IF start > Len(s) THEN s
    ELSE binarysort(MoveTo(s, start, BinarySearch(s, s[start], 1, start)),
                    start + 1)

list_sort(s) ==
    LET n == count_run(s)
        run == IF RunDescending(s) THEN ReversePrefix(s, n) ELSE s
    IN  binarysort(run, n + 1)

\* leaders.sort(key=..., reverse=True): reverse, stable ascending sort, reverse.
sort_reverse(s) == PyReverse(list_sort(PyReverse(s)))

identify_leaders(M) ==
    sort_reverse([i \in 1..Len(M.columns) |-> LeaderEntry(M, M.columns[i])])

(***************************** detect_spillover ****************************)
\* A plausible variant: a frame of a single symbol counted as insufficient.
InsufficientBelowTwo(M, symbol) ==
    Len(M.columns) < 2 \/ symbol \notin Range(M.columns)

\* correlations.empty or symbol not in correlations.columns
InsufficientData(M, symbol) == Empty(M) \/ symbol \notin Range(M.columns)

_calculate_volatility_spillover ==
    [volatility_transmission |-> 0,
     note |-> "Volatility spillover analysis - implementation in progress"]

SpilloverSources(M, symbol) ==
    [x \in {y \in Range(Others(M, symbol)) : Strong(M, y, symbol)} |->
        M.r[<<x, symbol>>]]

detect_spillover(M, symbol) ==
    IF InsufficientData(M, symbol)
    THEN [kind |-> "error", error |-> "Donnees insuffisantes"]
    ELSE [kind |-> "metrics",
          symbol |-> symbol,
          total_correlations |-> Len(Others(M, symbol)),
          strong_spillovers |-> StrongCount(M, symbol),
          avg_correlation |-> SeriesMean(Defined(M, symbol)),
          max_spillover |-> SeriesMax(AbsAll(Defined(M, symbol))),
          spillover_sources |-> SpilloverSources(M, symbol),
          volatility_spillover |-> _calculate_volatility_spillover]

(***************************** get_market_network **************************)
\* A plausible slip: >= instead of >.
EdgeQualifiesAtThreshold(M, symbol, other_symbol) ==
    /\ symbol # other_symbol
    /\ ~Undefined(M, symbol, other_symbol)
    /\ Abs(M.r[<<symbol, other_symbol>>]) >= min_correlation_threshold

\* symbol != other_symbol and abs(correlations.loc[symbol, other_symbol]) > threshold
EdgeQualifies(M, symbol, other_symbol) ==
    symbol # other_symbol /\ Strong(M, symbol, other_symbol)

Edge(M, symbol, other_symbol) ==
    [source |-> symbol,
     target |-> other_symbol,
     weight |-> Abs(M.r[<<symbol, other_symbol>>]),
     type |-> IF M.r[<<symbol, other_symbol>>] > 0 THEN "positive"
              ELSE "negative"]

\* The inner loop: the edges of one symbol, from column j on.
RECURSIVE EdgesOf(_, _, _)
EdgesOf(M, symbol, j) ==
    IF j > Len(M.columns) THEN <<>>
    ELSE (IF EdgeQualifies(M, symbol, M.columns[j])
          THEN <<Edge(M, symbol, M.columns[j])>> ELSE <<>>)
         \o EdgesOf(M, symbol, j + 1)

\* A plausible variant: each unordered pair reported once.
InnerLoopFromNext(i) == i + 1

\* for other_symbol in correlations.columns: every column, from the first.
InnerLoopFrom(i) == 1

\* The outer loop, from column i on.
RECURSIVE NetworkEdges(_, _)
NetworkEdges(M, i) ==
    IF i > Len(M.columns) THEN <<>>
    ELSE EdgesOf(M, M.columns[i], InnerLoopFrom(i)) \o NetworkEdges(M, i + 1)

\* (correlations[symbol].abs() > threshold).sum() - 1
Degree(M, symbol) ==
    Cardinality({x \in Range(M.columns) : Strong(M, x, symbol)}) - 1

Node(M, symbol) ==
    [id |-> symbol,
     degree |-> Degree(M, symbol),
     strength |-> SeriesMean(AbsAll(Defined(M, symbol))),
     asset_class |-> _get_asset_class(symbol)]

get_market_network(M) ==
    IF Empty(M)
    THEN [kind |-> "error", error |-> "Impossible de calculer le reseau"]
    ELSE LET nodes == [i \in 1..Len(M.columns) |-> Node(M, M.columns[i])]
             edges == NetworkEdges(M, 1)
         IN  [kind |-> "network",
              nodes |-> nodes,
              edges |-> edges,
              metadata |-> [total_nodes |-> Len(nodes),
                            total_edges |-> Len(edges),
                            correlation_threshold |-> min_correlation_threshold]]

(***************************** analyze_market_regime ***********************)
\* np.triu_indices_from(values, k=1): the index pairs i < j, row by row.
RECURSIVE triu_indices(_, _, _)
triu_indices(i, j, n) ==
    IF i >= n THEN <<>>
    ELSE IF j > n THEN triu_indices(i + 1, i + 2, n)
    ELSE <<<<i, j>>>> \o triu_indices(i, j + 1, n)

\* ndarray.mean(): NaN for no value at all, and as soon as one value is NaN.
UpperMean(M) ==
    LET t == triu_indices(1, 2, Len(M.columns))
        a(k) == M.columns[t[k][1]]
        b(k) == M.columns[t[k][2]]
    IN  IF t = <<>> \/ \E k \in 1..Len(t) : Undefined(M, a(k), b(k)) THEN NaN
        ELSE [num |-> SumSeq([k \in 1..Len(t) |-> M.r[<<a(k), b(k)>>]]),
              den |-> Len(t)]

RegimeOf(avg_correlation) ==
    IF MeanGT(avg_correlation, HighCorrelation) THEN "high_correlation"
    ELSE IF MeanGT(avg_correlation, ModerateCorrelation)
    THEN "moderate_correlation"
    ELSE "low_correlation"

DescriptionOf(regime) ==
    CASE regime = "high_correlation" ->
           "Marche en regime de forte correlation - risque systemique eleve"
      [] regime = "moderate_correlation" ->
           "Marche en regime de correlation moderee"
      [] OTHER ->
           "Marche en regime de faible correlation - opportunites de diversification"

\* A plausible variant: the symbols of the matrix counted.
SymbolsInMatrix(M, syms) == Len(M.columns)

\* 'symbols_analyzed': len(symbols)
SymbolsAnalyzed(M, syms) == Len(syms)

analyze_market_regime(M, syms) ==
    IF Empty(M)
    THEN [kind |-> "error",
          error |-> "Donnees insuffisantes pour l'analyse de regime"]
    ELSE [kind |-> "regime",
          regime |-> RegimeOf(UpperMean(M)),
          description |-> DescriptionOf(RegimeOf(UpperMean(M))),
          avg_correlation |-> UpperMean(M),
          symbols_analyzed |-> SymbolsAnalyzed(M, syms)]

(***************************** the analyzer ********************************)
NoResult == [kind |-> "none"]

Init ==
    /\ pc = "idle"
    /\ op = "none"
    /\ symbols = <<>>
    /\ target = NoSymbol
    /\ idx = 0
    /\ price_data = <<>>
    /\ calls = <<>>
    /\ correlations = EmptyFrame
    /\ result = NoResult

\* A public operation is entered: price_data = {} and the loop starts.
Begin(o, syms, t) ==
    /\ pc' = "fetch"
    /\ op' = o
    /\ symbols' = syms
    /\ target' = t
    /\ idx' = 1
    /\ price_data' = <<>>
    /\ calls' = <<>>
    /\ UNCHANGED <<correlations, result>>

CallCalculateCorrelations ==
    /\ pc = "idle"
    /\ \E syms \in SymbolLists :
          Begin("calculate_correlations", syms, NoSymbol)

CallDetectSpillover ==
    /\ pc = "idle"
    /\ \E syms \in SymbolLists, t \in Targets :
          Begin("detect_spillover", syms, t)

CallGetMarketNetwork ==
    /\ pc = "idle"
    /\ \E syms \in SymbolLists : Begin("get_market_network", syms, NoSymbol)

CallAnalyzeMarketRegime ==
    /\ pc = "idle"
    /\ \E syms \in SymbolLists : Begin("analyze_market_regime", syms, NoSymbol)

\* One call of get_historical_data(symbol, ...) and its outcome.
Answer(symbol, outcome) == [symbol |-> symbol, outcome |-> outcome]

\* The symbols the provider returned a non-empty series for.
Usable == {calls[i].symbol : i \in {j \in 1..Len(calls) : calls[j].outcome = "data"}}

InLoop == pc = "fetch" /\ idx <= Len(symbols)
LoopDone == pc = "fetch" /\ idx > Len(symbols)

\* get_historical_data raises: the except branch prints and continues.
FetchRaises ==
    /\ InLoop
    /\ calls' = Append(calls, Answer(symbols[idx], "raise"))
    /\ idx' = AfterException(idx, Len(symbols))
    /\ UNCHANGED <<pc, op, symbols, target, price_data, correlations, result>>

\* get_historical_data returns an empty frame.
FetchEmpty ==
    /\ InLoop
    /\ calls' = Append(calls, Answer(symbols[idx], "empty"))
    /\ price_data' = Store(price_data, symbols[idx], "empty")
    /\ idx' = idx + 1
    /\ UNCHANGED <<pc, op, symbols, target, correlations, result>>

\* get_historical_data returns a non-empty series.
FetchData ==
    /\ InLoop
    /\ \E kind \in SeriesKinds :
          price_data' = Store(price_data, symbols[idx], kind)
    /\ calls' = Append(calls, Answer(symbols[idx], "data"))
    /\ idx' = idx + 1
    /\ UNCHANGED <<pc, op, symbols, target, correlations, result>>

\* The loop is over: the frame is computed and the operation returns.
Finish(M, res) ==
    /\ correlations' = M
    /\ result' = res
    /\ pc' = "done"
    /\ UNCHANGED <<op, symbols, target, idx, price_data, calls>>

ReturnCorrelations ==
    /\ LoopDone
    /\ op = "calculate_correlations"
    /\ \E M \in calculate_correlations(price_data) :
          Finish(M, [kind |-> "matrix"])

DetectSpillover ==
    /\ LoopDone
    /\ op = "detect_spillover"
    /\ \E M \in calculate_correlations(price_data) :
          Finish(M, detect_spillover(M, target))

GetMarketNetwork ==
    /\ LoopDone
    /\ op = "get_market_network"
    /\ \E M \in calculate_correlations(price_data) :
          Finish(M, get_market_network(M))

AnalyzeMarketRegime ==
    /\ LoopDone
    /\ op = "analyze_market_regime"
    /\ \E M \in calculate_correlations(price_data) :
          Finish(M, analyze_market_regime(M, symbols))

\* The caller has the result; nothing outlives the call.
Return ==
    /\ pc = "done"
    /\ pc' = "idle"
    /\ op' = "none"
    /\ symbols' = <<>>
    /\ target' = NoSymbol
    /\ idx' = 0
    /\ price_data' = <<>>
    /\ calls' = <<>>
    /\ correlations' = EmptyFrame
    /\ result' = NoResult

Next ==
    \/ CallCalculateCorrelations
    \/ CallDetectSpillover
    \/ CallGetMarketNetwork
    \/ CallAnalyzeMarketRegime
    \/ FetchRaises
    \/ FetchEmpty
    \/ FetchData
    \/ ReturnCorrelations
    \/ DetectSpillover
    \/ GetMarketNetwork
    \/ AnalyzeMarketRegime
    \/ Return

Spec == Init /\ [][Next]_vars

(***************************** identify_leaders on its own *****************)
LeaderUniverse == {<<"A">>, <<"B">>, <<"C">>, <<"D">>}
LeaderGrid == {-90, 10, 50}

\* Stored series of distinct symbols, as calculate_correlations collects them.
LeaderSeries ==
    LET raw == UNION {[1..n -> LeaderUniverse \X SeriesKinds] :
                        n \in 0..MaxCols}
        distinct(s) == \A i, j \in 1..Len(s) : i # j => s[i][1] # s[j][1]
    IN  {[i \in 1..Len(s) |-> [symbol |-> s[i][1], kind |-> s[i][2]]] :
            s \in {q \in raw : distinct(q)}}

LeaderFrames == UNION {FramesOver(pd, LeaderGrid) : pd \in LeaderSeries}

CallIdentifyLeaders ==
    /\ pc = "idle"
    /\ \E M \in LeaderFrames :
          /\ correlations' = M
          /\ result' = [kind |-> "leaders", leaders |-> identify_leaders(M)]
    /\ pc' = "done"
    /\ op' = "identify_leaders"
    /\ UNCHANGED <<symbols, target, idx, price_data, calls>>

NextLeaders == CallIdentifyLeaders \/ Return

SpecLeaders == Init /\ [][NextLeaders]_vars

(***************************** _get_asset_class on its own *****************)
Prefixes == {<<>>, <<"^">>, <<"A">>}
Bodies == {<<>>, <<"G", "C">>, <<"S", "I">>, <<"P", "L">>, <<"B">>}
Suffixes == {<<>>, <<"=", "X">>, <<"=", "F">>, <<"-", "U", "S", "D">>,
             <<"-", "U", "S", "D", "T">>, <<"-", "U", "S">>, <<"X">>,
             <<"U", "S", "D">>}

AssetSymbols == {p \o b \o s : p \in Prefixes, b \in Bodies, s \in Suffixes}

CallGetAssetClass ==
    /\ pc = "idle"
    /\ \E s \in AssetSymbols :
          /\ symbols' = <<s>>
          /\ result' = [kind |-> "asset_class",
                        asset_class |-> _get_asset_class(s)]
    /\ pc' = "done"
    /\ op' = "_get_asset_class"
    /\ UNCHANGED <<target, idx, price_data, calls, correlations>>

NextAsset == CallGetAssetClass \/ Return

SpecAsset == Init /\ [][NextAsset]_vars

(***************************** properties **********************************)
Columns == Range(correlations.columns)
Returned(o) == pc = "done" /\ op = o

\* C1: calculate_correlations asks the provider for every symbol of the list,
\* in order, whatever the earlier answers were; a raising call ends nothing;
\* and the columns of the frame are exactly the symbols the provider returned
\* a non-empty series for.
C1_EveryFetchAttempted ==
    /\ Len(calls) <= Len(symbols)
    /\ \A i \in 1..Len(calls) : calls[i].symbol = symbols[i]
    /\ pc = "fetch" => idx = Len(calls) + 1
    /\ pc = "done" =>
          /\ Len(calls) = Len(symbols)
          /\ Columns = Usable
          /\ result.kind # "none"

\* A list whose first fetch raised and whose later symbol is in the frame.
C1_Witness ==
    /\ Returned("calculate_correlations")
    /\ Len(symbols) >= 2
    /\ calls[1].outcome = "raise"
    /\ calls[2].outcome = "data"
    /\ symbols[2] \in Columns
    /\ symbols[1] \notin Columns

\* C2: with fewer than 2 symbols of usable data the frame is empty, and
\* detect_spillover, get_market_network and analyze_market_regime return an
\* error result.
C2_FewerThanTwoIsError ==
    pc = "done" /\ op \in {"calculate_correlations", "detect_spillover",
                           "get_market_network", "analyze_market_regime"}
       /\ Cardinality(Usable) < 2 =>
          /\ Empty(correlations)
          /\ op # "calculate_correlations" =>
                result.kind = "error" /\ "error" \in DOMAIN result

\* C3: detect_spillover returns the error result, with no metric in it, exactly
\* when the frame is empty or lacks the target (the target is not listed, or
\* none of its fetches gave data); otherwise a metrics result with no 'error'.
C3_SpilloverErrorIffNoTarget ==
    Returned("detect_spillover") =>
        LET insufficient ==
                Len(correlations.columns) = 0 \/ target \notin Columns
        IN  /\ insufficient <=> result.kind = "error"
            /\ result.kind = "error" => DOMAIN result = {"kind", "error"}
            /\ result.kind # "error" =>
                  /\ result.kind = "metrics"
                  /\ "error" \notin DOMAIN result
                  /\ result.symbol = target
                  /\ result.total_correlations = Len(correlations.columns) - 1
            /\ target \notin Range(symbols) \/ target \notin Usable =>
                  result.kind = "error"

\* The target is the only symbol with data: a metrics result, not an error.
C3_Witness ==
    /\ Returned("detect_spillover")
    /\ Len(symbols) >= 2
    /\ Usable = {target}
    /\ result.kind = "metrics"
    /\ result.total_correlations = 0

\* C4: the network has an edge a -> b iff a # b and |corr(a, b)| > threshold;
\* its weight is |corr(a, b)|, in (threshold, 1], and its type tells the sign.
C4_EdgeIffAboveThreshold ==
    Returned("get_market_network") /\ result.kind = "network" =>
        LET E == result.edges
            r == correlations.r
            defined(a, b) == a \notin correlations.nan /\ b \notin correlations.nan
        IN  /\ \A a, b \in Columns :
                  (\E i \in 1..Len(E) : E[i].source = a /\ E[i].target = b)
                     <=> /\ a # b
                         /\ defined(a, b)
                         /\ Abs(r[<<a, b>>]) > min_correlation_threshold
            /\ \A i \in 1..Len(E) :
                  /\ E[i].source \in Columns /\ E[i].target \in Columns
                  /\ E[i].weight = Abs(r[<<E[i].source, E[i].target>>])
                  /\ E[i].weight > min_correlation_threshold
                  /\ E[i].weight <= One
                  /\ E[i].type = IF r[<<E[i].source, E[i].target>>] > 0
                                 THEN "positive" ELSE "negative"

\* One pair exactly at the threshold and one below it, no edge for either, and
\* a negative edge elsewhere.
C4_Witness ==
    /\ Returned("get_market_network")
    /\ result.kind = "network"
    /\ correlations.nan = {}
    /\ \E a, b, c \in Columns :
          /\ correlations.r[<<a, b>>] = 30
          /\ correlations.r[<<a, c>>] = 25
          /\ correlations.r[<<b, c>>] = -80
    /\ Len(result.edges) = 2
    /\ \A i \in 1..2 : result.edges[i].type = "negative"

\* C5: no self-edge; every edge a -> b has exactly one mate b -> a, of the same
\* weight and type; total_edges is the length of the edge list, twice the
\* number of qualifying unordered pairs.
C5_EdgesComeInPairs ==
    Returned("get_market_network") /\ result.kind = "network" =>
        LET E == result.edges
            qualifying ==
                {{a, b} : a, b \in Columns} \cap
                {p \in SUBSET Columns :
                    /\ Cardinality(p) = 2
                    /\ p \cap correlations.nan = {}
                    /\ \A a, b \in p :
                          a # b => Abs(correlations.r[<<a, b>>])
                                      > min_correlation_threshold}
        IN  /\ \A i \in 1..Len(E) : E[i].source # E[i].target
            /\ \A i \in 1..Len(E) :
                  Cardinality({j \in 1..Len(E) :
                                  /\ E[j].source = E[i].target
                                  /\ E[j].target = E[i].source}) = 1
            /\ \A i, j \in 1..Len(E) :
                  E[j].source = E[i].target /\ E[j].target = E[i].source =>
                      E[j].weight = E[i].weight /\ E[j].type = E[i].type
            /\ result.metadata.total_edges = Len(E)
            /\ Len(E) = 2 * Cardinality(qualifying)

\* Three symbols, every pair strongly correlated: six edges.
C5_Witness ==
    /\ Returned("get_market_network")
    /\ result.kind = "network"
    /\ Len(correlations.columns) = 3
    /\ result.metadata.total_edges = 6

\* C6: a node's degree is the number of other symbols whose |corr| with it
\* exceeds the threshold, the number of edges leaving it, and never negative.
C6_DegreeCountsOthers ==
    Returned("get_market_network") /\ result.kind = "network" =>
        \A i \in 1..Len(result.nodes) :
            LET n == result.nodes[i]
            IN  /\ n.degree = Cardinality({j \in 1..Len(result.edges) :
                                              result.edges[j].source = n.id})
                /\ n.degree >= 0

\* What does hold of the degree: it is the number of outgoing edges, and not
\* negative, for every node whose own correlation is defined.
DegreeWhenDiagonalDefined ==
    Returned("get_market_network") /\ result.kind = "network" =>
        \A i \in 1..Len(result.nodes) :
            LET n == result.nodes[i]
            IN  n.id \notin correlations.nan =>
                   /\ n.degree = Cardinality({j \in 1..Len(result.edges) :
                                                 result.edges[j].source = n.id})
                   /\ n.degree >= 0

\* C7: identify_leaders returns one record per column, leadership_score never
\* increasing along the list, equal scores in column order.
C7_LeadersSortedDescending ==
    result.kind = "leaders" =>
        LET L == result.leaders
            cols == correlations.columns
            place(s) == CHOOSE i \in 1..Len(cols) : cols[i] = s
            score(i) == L[i].leadership_score
        IN  /\ Len(L) = Len(cols)
            /\ {L[i].symbol : i \in 1..Len(L)} = Range(cols)
            /\ \A i, j \in 1..Len(L) :
                  i < j => ~MeanLT(score(i), score(j))
            /\ \A i, j \in 1..Len(L) :
                  /\ i < j
                  /\ ~IsNaN(score(i)) /\ ~IsNaN(score(j))
                  /\ score(i).num * score(j).den = score(j).num * score(i).den
                  => place(L[i].symbol) < place(L[j].symbol)

\* What does hold of identify_leaders: the same, for a matrix none of whose
\* symbols has an undefined score.
LeadersSortedWhenScoresDefined ==
    result.kind = "leaders"
       /\ (\A i \in 1..Len(result.leaders) :
              ~IsNaN(result.leaders[i].leadership_score))
       => C7_LeadersSortedDescending

\* C8: the regime is high_correlation iff the mean m of the upper triangle is
\* > 0.7, moderate_correlation iff 0.4 < m <= 0.7, low_correlation iff
\* m <= 0.4; a matrix whose off-diagonal entries are all 0.8 is high.
C8_RegimeByMean ==
    Returned("analyze_market_regime") /\ result.kind = "regime" =>
        LET m == result.avg_correlation
            above(t) == m.den > 0 /\ m.num > t * m.den
            atmost(t) == m.den > 0 /\ m.num <= t * m.den
        IN  /\ result.regime \in {"high_correlation", "moderate_correlation",
                                  "low_correlation"}
            /\ result.regime = "high_correlation" <=> above(HighCorrelation)
            /\ result.regime = "moderate_correlation" <=>
                  above(ModerateCorrelation) /\ atmost(HighCorrelation)
            /\ result.regime = "low_correlation" <=> atmost(ModerateCorrelation)
            /\ (/\ Len(correlations.columns) >= 2
                /\ correlations.nan = {}
                /\ \A a, b \in Columns : a # b => correlations.r[<<a, b>>] = 80)
               => result.regime = "high_correlation"

\* What does hold of the regime: the thresholds of C8, for every defined mean.
RegimeByMeanWhenDefined ==
    Returned("analyze_market_regime") /\ result.kind = "regime"
       /\ ~IsNaN(result.avg_correlation) => C8_RegimeByMean

\* C9: _get_asset_class gives every symbol the class of the first rule it
\* matches: '=X' at the end, one of GC=F SI=F PL=F, '-USD' or '-USDT' at the
\* end, '^' at the start, else equity.
C9_FirstMatchingRule ==
    result.kind = "asset_class" =>
        LET s == symbols[1]
            n == Len(s)
            class == result.asset_class
            forex == n >= 2 /\ s[n - 1] = "=" /\ s[n] = "X"
            commodity ==
                /\ n = 4
                /\ <<s[1], s[2]>> \in {<<"G", "C">>, <<"S", "I">>, <<"P", "L">>}
                /\ s[3] = "=" /\ s[4] = "F"
            usd == n >= 4 /\ s[n - 3] = "-" /\ s[n - 2] = "U"
                          /\ s[n - 1] = "S" /\ s[n] = "D"
            usdt == n >= 5 /\ s[n - 4] = "-" /\ s[n - 3] = "U"
                           /\ s[n - 2] = "S" /\ s[n - 1] = "D" /\ s[n] = "T"
            index == n >= 1 /\ s[1] = "^"
        IN  /\ class \in {"forex", "commodity", "crypto", "index", "equity"}
            /\ forex => class = "forex"
            /\ ~forex /\ commodity => class = "commodity"
            /\ ~forex /\ ~commodity /\ (usd \/ usdt) => class = "crypto"
            /\ ~forex /\ ~commodity /\ ~(usd \/ usdt) /\ index =>
                  class = "index"
            /\ ~forex /\ ~commodity /\ ~(usd \/ usdt) /\ ~index =>
                  class = "equity"

\* A symbol that starts with '^' and ends with '-USD': the crypto rule decides.
C9_Witness ==
    /\ result.kind = "asset_class"
    /\ symbols[1] = <<"^", "B", "-", "U", "S", "D">>
    /\ result.asset_class = "crypto"

\* C10: symbols_analyzed is the length of the requested list, so it exceeds
\* the number of matrix symbols as soon as one fetch was skipped, while
\* get_market_network's total_nodes is the number of matrix symbols.
C10_SymbolsAnalyzedIsRequested ==
    /\ Returned("analyze_market_regime") /\ result.kind = "regime" =>
          /\ result.symbols_analyzed = Len(symbols)
          /\ (\E i \in 1..Len(calls) : calls[i].outcome # "data") =>
                result.symbols_analyzed > Len(correlations.columns)
    /\ Returned("get_market_network") /\ result.kind = "network" =>
          /\ result.metadata.total_nodes = Len(correlations.columns)
          /\ result.metadata.total_nodes = Cardinality(Usable)

\* Three symbols requested, one fetch raised: two columns, symbols_analyzed 3.
C10_Witness ==
    /\ Returned("analyze_market_regime")
    /\ result.kind = "regime"
    /\ \E i \in 1..Len(calls) : calls[i].outcome = "raise"
    /\ Len(correlations.columns) = 2
    /\ result.symbols_analyzed = 3

====
